---- MODULE Spec2Model ----
(***************************************************************************)
(* Model of src/src/lib.rs: the iCloud session client (ICloudClient), the  *)
(* Hide-My-Email manager (HideMyEmailManager) and the cookie helpers.      *)
(* The HTTP server is the environment: every call draws the outcome of its *)
(* request(s) from the finite set Responses.                                *)
(* Strings that the code takes apart or assembles (cookie names, values    *)
(* and headers) are sequences of one-character strings; strings the code   *)
(* only compares or passes on (addresses, labels, notes, URLs) are atoms.  *)
(***************************************************************************)
EXTENDS Integers, Sequences, FiniteSets, TLC

VARIABLES phase, client, services, cookies, mgrCookie, last

vars == <<phase, client, services, cookies, mgrCookie, last>>

\* ------------------------------------------------------------------ bounds
MaxRespCookies == 2
MaxHeaderLen == 5

\* All sequences over S of length at most n.
SeqsUpTo(S, n) == UNION {[1..k -> S] : k \in 0..n}

\* ----------------------------------------------------------------- cookies
Cookie(n, v) == [name |-> n, value |-> v]

\* format!("{}={}", c.name, c.value)
FormatCookie(c) == c.name \o <<"=">> \o c.value

\* Vec<String>::join(sep)
RECURSIVE Join(_, _)
Join(parts, sep) ==
    IF parts = <<>> THEN <<>>
    ELSE IF Len(parts) = 1 THEN parts[1]
    ELSE parts[1] \o sep \o Join(Tail(parts), sep)

\* The serialization joining with ";" alone.
CookieHeader_semicolon(cs) ==
    Join([i \in 1..Len(cs) |-> FormatCookie(cs[i])], <<";">>)

\* cookies.iter().map(|c| format!(..)).collect::<Vec<String>>().join("; ")
CookieHeader(cs) ==
    Join([i \in 1..Len(cs) |-> FormatCookie(cs[i])], <<";", " ">>)

\* Byte value of the characters the model uses.
CharCode(c) ==
    CASE c = "\n" -> 10
      [] c = " " -> 32
      [] c = "1" -> 49
      [] c = "2" -> 50
      [] c = ";" -> 59
      [] c = "=" -> 61
      [] c = "a" -> 97
      [] c = "b" -> 98

\* A header check letting every byte from 9 up to 126 pass.
ValidHeaderValue_lenient(s) ==
    \A i \in 1..Len(s) : CharCode(s[i]) >= 9 /\ CharCode(s[i]) < 127

\* HeaderValue::from_str accepts visible ASCII (32..126) and tab only.
ValidHeaderValue(s) ==
    \A i \in 1..Len(s) :
        \/ CharCode(s[i]) = 9
        \/ (CharCode(s[i]) >= 32 /\ CharCode(s[i]) < 127)

\* The merge filtering by the name of the first response cookie only.
MergeCookies_first_name(old, resp) ==
    SelectSeq(old, LAMBDA c : ~(resp # <<>> /\ c.name = resp[1].name))
        \o resp

\* The merge without the filter: the response cookies are just appended.
MergeCookies_no_filter(old, resp) == old \o resp

\* self.cookies filtered by the names of resp_cookies, then resp_cookies appended
MergeCookies(old, resp) ==
    SelectSeq(old, LAMBDA c : ~(\E j \in 1..Len(resp) : c.name = resp[j].name))
        \o resp

\* str::split(sep): the pieces of s between the occurrences of sep, found
\* from the left.
RECURSIVE SplitOn(_, _)
SplitOn(s, sep) ==
    LET hits == {i \in 1..(Len(s) - Len(sep) + 1) : SubSeq(s, i, i + Len(sep) - 1) = sep} IN
    IF hits = {} THEN <<s>>
    ELSE LET i == CHOOSE h \in hits : \A g \in hits : h <= g IN
         <<SubSeq(s, 1, i - 1)>> \o SplitOn(SubSeq(s, i + Len(sep), Len(s)), sep)

\* split_once cutting at the last occurrence of c (rsplit_once).
split_once_last(s, c) ==
    LET hits == {i \in 1..Len(s) : s[i] = c} IN
    IF hits = {} THEN <<>>
    ELSE LET i == CHOOSE h \in hits : \A g \in hits : h >= g IN
         <<[k |-> SubSeq(s, 1, i - 1), v |-> SubSeq(s, i + 1, Len(s))]>>

\* str::split_once(c): s cut at the first occurrence of c, or None.
split_once(s, c) ==
    LET hits == {i \in 1..Len(s) : s[i] = c} IN
    IF hits = {} THEN <<>>
    ELSE LET i == CHOOSE h \in hits : \A g \in hits : h <= g IN
         <<[k |-> SubSeq(s, 1, i - 1), v |-> SubSeq(s, i + 1, Len(s))]>>

\* The loop of Cookie::from_str over the segments left, with the cookies
\* pushed so far; an Err carries the segment and no cookie.
RECURSIVE from_str_loop(_, _)
from_str_loop(segs, acc) ==
    IF segs = <<>> THEN [ok |-> TRUE, cookies |-> acc, err |-> <<>>]
    ELSE LET kv == split_once(segs[1], "=") IN
         IF kv = <<>> THEN [ok |-> FALSE, cookies |-> <<>>, err |-> segs[1]]
         ELSE from_str_loop(Tail(segs), Append(acc, Cookie(kv[1].k, kv[1].v)))

\* Cookie::from_str
from_str(s) == from_str_loop(SplitOn(s, <<";", " ">>), <<>>)

\* ------------------------------------------------------- service directory
ServiceKeys == {"premiummailsettings", "other"}

\* Option<T>: <<>> is None, <<x>> is Some(x).
None == <<>>
Some(x) == <<x>>

Service(url, status) == [url |-> url, status |-> status]

\* HashMap::new()
EmptyDir == [k \in ServiceKeys |-> None]

\* HashMap::get
DirGet(dir, k) == IF k \in DOMAIN dir THEN dir[k] ELSE None

BaseA == "https://p1-maildomainws.icloud.com"
BaseOther == "https://p1-other.icloud.com"

DirNoPms == [EmptyDir EXCEPT !["other"] = Some(Service(Some(BaseOther), Some("active")))]
DirNoStatus == [EmptyDir EXCEPT !["premiummailsettings"] = Some(Service(Some(BaseA), None))]
DirInactive == [EmptyDir EXCEPT !["premiummailsettings"] = Some(Service(Some(BaseA), Some("inactive")))]
DirActive ==
    [EmptyDir EXCEPT !["premiummailsettings"] = Some(Service(Some(BaseA), Some("active"))),
                     !["other"] = Some(Service(Some(BaseOther), Some("active")))]
DirActiveNoUrl == [EmptyDir EXCEPT !["premiummailsettings"] = Some(Service(None, Some("active")))]

ResponseDirs == {DirNoPms, DirNoStatus, DirInactive, DirActive, DirActiveNoUrl}

\* ---------------------------------------------------------- response bodies
Addresses == {"x@example.com", "y@example.com"}
Labels == {"L"}
Notes == {"N"}

\* A response body (the raw text).  shape says which JSON document it is:
\* "garbage" (no JSON of any expected shape), "dir" (a validate envelope),
\* "str" (an HME envelope whose result.hme is a string), "rec" (an HME
\* envelope whose result.hme is a full record), "list" (a list envelope).
Text(shape, dir, hme, active) ==
    [shape |-> shape, dir |-> dir, hme |-> hme, active |-> active]

NoText == Text("none", EmptyDir, "", FALSE)
Garbage == Text("garbage", EmptyDir, "", FALSE)

DirText(d) == Text("dir", d, "", FALSE)
StrText(a) == Text("str", EmptyDir, a, FALSE)
RecText(a, b) == Text("rec", EmptyDir, a, b)
ListText == Text("list", EmptyDir, "", FALSE)

\* Bodies the setup endpoint answers with.
ValidateTexts == {Garbage} \cup {DirText(d) : d \in ResponseDirs}

\* Bodies the forwarding-email endpoints answer with.
HmeTexts ==
    {ListText}
    \cup {StrText(a) : a \in Addresses}
    \cup {RecText("x@example.com", b) : b \in BOOLEAN}
    \cup {RecText("y@example.com", TRUE)}

\* A decode that keeps the forwarding-email entry only.
DecodeValidate_only_pms(text) ==
    IF text.shape = "dir"
    THEN Some([webservices |->
                 [k \in ServiceKeys |->
                    IF k = "premiummailsettings" THEN text.dir[k] ELSE None]])
    ELSE None

\* serde_json::from_str::<ICloudWSValidateResponse>
DecodeValidate(text) ==
    IF text.shape = "dir" THEN Some([webservices |-> text.dir]) ELSE None

\* serde_json::from_str::<HMEResponse>; result.hme is the untagged enum
\* HMEResultType: a JSON string is Generate, a full record is Reserve.
DecodeHME(text) ==
    IF text.shape = "str" THEN Some([variant |-> "Generate", hme |-> text.hme, is_active |-> FALSE])
    ELSE IF text.shape = "rec" THEN Some([variant |-> "Reserve", hme |-> text.hme, is_active |-> text.active])
    ELSE None

\* serde_json::from_str::<HMEListResponse>
DecodeList(text) ==
    IF text.shape = "list" THEN Some([result |-> text]) ELSE None

\* ------------------------------------------------------------ HTTP exchange
Statuses == {200, 304, 404, 500}
OtherStatuses == Statuses \ {200}

\* is_client_error taking the redirections for errors too.
is_client_error_from_300(s) == s >= 300 /\ s < 500
\* is_server_error with the lower end excluded.
is_server_error_above_500(s) == s > 500 /\ s < 600

\* StatusCode::is_client_error
is_client_error(s) == s >= 400 /\ s < 500
\* StatusCode::is_server_error
is_server_error(s) == s >= 500 /\ s < 600

\* The cookie lists a client is built from; the last one does not encode
\* as a header value.
InitCookieLists ==
    {<<>>,
     <<Cookie(<<"a">>, <<"1">>)>>,
     <<Cookie(<<"a">>, <<"1">>), Cookie(<<"b">>, <<"1">>)>>,
     <<Cookie(<<"b">>, <<"1">>), Cookie(<<"a">>, <<"1">>)>>,
     <<Cookie(<<"a">>, <<"1">>), Cookie(<<"a">>, <<"2">>)>>,
     <<Cookie(<<"a">>, <<"1">>), Cookie(<<"b">>, <<"\n">>)>>}
RespCookiePool ==
    {Cookie(<<"a">>, <<"2">>), Cookie(<<"b">>, <<"2">>)}

\* What the transport hands back for one request: send() fails, the body
\* cannot be read, or a response with status, body and Set-Cookie cookies.
Response(outcome, status, text, cs) ==
    [outcome |-> outcome, status |-> status, text |-> text, cookies |-> cs]

TransportFailures ==
    {Response("send_err", 0, NoText, <<>>), Response("text_err", 200, NoText, <<>>)}

\* A response without cookies.
Plain(status, text) == Response("ok", status, text, <<>>)

FewCookieLists == {<<>>, <<Cookie(<<"a">>, <<"2">>)>>}

\* Responses of the setup endpoint: status 200 and an acceptable directory
\* with every cookie list; the bodies validate rejects and the other
\* statuses with no cookie and with one.
ValidateResponses ==
    TransportFailures
    \cup {Response("ok", 200, DirText(d), cs) :
            d \in {DirActive, DirActiveNoUrl},
            cs \in SeqsUpTo(RespCookiePool, MaxRespCookies)}
    \cup {Response("ok", 200, t, cs) :
            t \in ValidateTexts \ {DirText(DirActive), DirText(DirActiveNoUrl)},
            cs \in FewCookieLists}
    \cup {Response("ok", s, t, cs) :
            s \in OtherStatuses, t \in {Garbage, DirText(DirActive)},
            cs \in FewCookieLists}

\* Responses of the forwarding-email endpoints (their cookies are never
\* read).  Each endpoint is answered, under status 200, with the body it
\* expects, with bodies of the other shapes and, under every other status,
\* with a body of the shape it expects.
GenerateResponses ==
    TransportFailures
    \cup {Plain(200, t) :
            t \in {StrText(a) : a \in Addresses} \cup {RecText("x@example.com", TRUE), ListText}}
    \cup {Plain(s, StrText("x@example.com")) : s \in OtherStatuses}

ClaimResponses ==
    TransportFailures
    \cup {Plain(200, t) : t \in HmeTexts \ {StrText("y@example.com")}}
    \cup {Plain(s, RecText("x@example.com", TRUE)) : s \in OtherStatuses}

ListResponses ==
    TransportFailures
    \cup {Plain(200, t) : t \in {ListText, StrText("x@example.com")}}
    \cup {Plain(s, ListText) : s \in OtherStatuses}

NoPayload == None
Request(method, base, path, cookie, payload) ==
    [method |-> method, base |-> base, path |-> path, cookie |-> cookie, payload |-> payload]

\* reqwest inserts a default header only where the request has none.
EffectiveCookie(defaults, explicit) ==
    IF explicit # None THEN explicit[1] ELSE defaults

\* ------------------------------------------------------------------ results
Res(ok, kind, status, body, email, active, hme) ==
    [ok |-> ok, kind |-> kind, status |-> status, body |-> body,
     email |-> email, active |-> active, hme |-> hme]

OkUnit == Res(TRUE, "ok", 0, NoText, "", FALSE, "")
OkGenerate(hme) == Res(TRUE, "ok", 0, NoText, "", FALSE, hme)
OkReserve(g) == Res(TRUE, "ok", 0, NoText, "", g.is_active, g.hme)
OkList(result) == Res(TRUE, "ok", 0, result, "", FALSE, "")
ErrTransport == Res(FALSE, "transport", 0, NoText, "", FALSE, "")
\* "Failed to send request | Status: {} | Response: {}"
ErrStatus(status, text) == Res(FALSE, "status", status, text, "", FALSE, "")
ErrDecode == Res(FALSE, "decode", 0, NoText, "", FALSE, "")
\* "Missing Hide my email service"
ErrMissingService == Res(FALSE, "missing_service", 0, NoText, "", FALSE, "")
\* "Hide my email missing status"
ErrMissingStatus == Res(FALSE, "missing_status", 0, NoText, "", FALSE, "")
\* "Hide my email is inactive/disabled"
ErrInactive == Res(FALSE, "inactive", 0, NoText, "", FALSE, "")
\* "Missing Base URL"
ErrMissingBaseUrl == Res(FALSE, "missing_base_url", 0, NoText, "", FALSE, "")
\* "Hide my email for {} is inactive/invalid, Active: {}, HME: {}"
ErrClaim(email, active, hme) == Res(FALSE, "claim_invalid", 0, NoText, email, active, hme)
\* unreachable!() and unwrap() on Err: the call aborts, no value is returned
Panic == Res(FALSE, "panic", 0, NoText, "", FALSE, "")

\* What one call did: the requests it issued, the responses it consumed,
\* for each response whether it was handed to serde_json::from_str, and
\* the value returned.
Outcome(reqs, resps, decoded, res) ==
    [reqs |-> reqs, resps |-> resps, decoded |-> decoded, res |-> res]

\* -------------------------------------------------------------- operations
\* ICloudClient::setup_url
setup_url == "https://setup.icloud.com/setup/ws/1"

\* ICloudClient::new: the Cookie default header is built once, from the
\* cookies given; HeaderValue::from_str(..).unwrap() aborts on a bad value.
new(cs) ==
    LET cookie == CookieHeader(cs) IN
    IF ~ValidHeaderValue(cookie)
    THEN [res |-> Panic, built |-> FALSE, client |-> [cookie |-> <<>>],
          services |-> EmptyDir, cookies |-> <<>>]
    ELSE [res |-> OkUnit, built |-> TRUE, client |-> [cookie |-> cookie],
          services |-> EmptyDir, cookies |-> cs]

\* premiummail_check with the arm for a missing status falling through.
premiummail_check_lax(webservices) ==
    LET t == DirGet(webservices, "premiummailsettings") IN
    IF t = None THEN Some(ErrMissingService)
    ELSE IF t[1].status = None THEN None
    ELSE IF t[1].status[1] # "active" THEN Some(ErrInactive)
    ELSE None

\* premiummail_check letting every status pass.
premiummail_check_any_status(webservices) ==
    LET t == DirGet(webservices, "premiummailsettings") IN
    IF t = None THEN Some(ErrMissingService)
    ELSE IF t[1].status = None THEN Some(ErrMissingStatus)
    ELSE None

\* The match on body.webservices.get("premiummailsettings") in validate:
\* None when the service is there and active, else the error returned.
premiummail_check(webservices) ==
    LET t == DirGet(webservices, "premiummailsettings") IN
    IF t = None THEN Some(ErrMissingService)
    ELSE IF t[1].status = None THEN Some(ErrMissingStatus)
    ELSE IF t[1].status[1] # "active" THEN Some(ErrInactive)
    ELSE None

\* validate merging the response cookies before its checks.
validate_merge_first(self, r) ==
    LET req == Request("POST", setup_url, "/validate",
                       EffectiveCookie(self.client.cookie, None), NoPayload)
        Keep(dec, res) ==
            [out |-> Outcome(<<req>>, <<r>>, <<dec>>, res),
             services |-> self.services,
             cookies |-> MergeCookies(self.cookies, r.cookies)]
    IN
    IF r.outcome = "send_err" THEN Keep(FALSE, ErrTransport)
    ELSE IF r.outcome = "text_err" THEN Keep(FALSE, ErrTransport)
    ELSE IF is_client_error(r.status) \/ is_server_error(r.status)
    THEN Keep(FALSE, ErrStatus(r.status, r.text))
    ELSE
    LET body == DecodeValidate(r.text) IN
    IF body = None THEN Keep(TRUE, ErrDecode)
    ELSE
    LET e == premiummail_check(body[1].webservices) IN
    IF e # None THEN Keep(TRUE, e[1])
    ELSE [out |-> Outcome(<<req>>, <<r>>, <<TRUE>>, OkUnit),
          services |-> body[1].webservices,
          cookies |-> MergeCookies(self.cookies, r.cookies)]

\* ICloudClient::validate on self = [client, services, cookies] with the
\* transport answering r.  Gives the outcome and the fields of self after
\* the call.
validate(self, r) ==
    LET req == Request("POST", setup_url, "/validate",
                       EffectiveCookie(self.client.cookie, None), NoPayload)
        Keep(dec, res) ==
            [out |-> Outcome(<<req>>, <<r>>, <<dec>>, res),
             services |-> self.services, cookies |-> self.cookies]
    IN
    IF r.outcome = "send_err" THEN Keep(FALSE, ErrTransport)
    ELSE
    LET status == r.status
        resp_cookies == r.cookies
    IN
    IF r.outcome = "text_err" THEN Keep(FALSE, ErrTransport)
    ELSE IF is_client_error(status) \/ is_server_error(status)
    THEN Keep(FALSE, ErrStatus(status, r.text))
    ELSE
    LET body == DecodeValidate(r.text) IN
    IF body = None THEN Keep(TRUE, ErrDecode)
    ELSE
    LET e == premiummail_check(body[1].webservices) IN
    IF e # None THEN Keep(TRUE, e[1])
    ELSE [out |-> Outcome(<<req>>, <<r>>, <<TRUE>>, OkUnit),
          services |-> body[1].webservices,
          cookies |-> MergeCookies(self.cookies, resp_cookies)]

\* HideMyEmailManager::from: takes the session over and snapshots its
\* cookies as a header string.
from(icloud) ==
    [icloud |-> icloud, cookie |-> CookieHeader(icloud.cookies)]

\* base_url giving an empty URL for an entry without one.
base_url_or_default(self) ==
    LET s == DirGet(self.icloud.services, "premiummailsettings") IN
    IF s # None THEN (IF s[1].url # None THEN s[1].url ELSE Some("")) ELSE None

\* HideMyEmailManager::base_url
base_url(self) ==
    LET s == DirGet(self.icloud.services, "premiummailsettings") IN
    IF s # None THEN s[1].url ELSE None

\* The request of a manager call: .header("Cookie", &self.cookie) on the
\* session's client.
ManagerRequest(self, method, base, path, payload) ==
    Request(method, base, path,
            EffectiveCookie(self.icloud.client.cookie, Some(self.cookie)), payload)

\* HideMyEmailManager::generate
generate(self, r) ==
    LET base == base_url(self) IN
    IF base = None THEN Outcome(<<>>, <<>>, <<>>, ErrMissingBaseUrl)
    ELSE
    LET req == ManagerRequest(self, "POST", base[1], "/v1/hme/generate", NoPayload)
        Done(dec, res) == Outcome(<<req>>, <<r>>, <<dec>>, res)
    IN
    IF r.outcome # "ok" THEN Done(FALSE, ErrTransport)
    ELSE IF is_server_error(r.status) \/ is_client_error(r.status)
    THEN Done(FALSE, ErrStatus(r.status, r.text))
    ELSE
    LET body == DecodeHME(r.text) IN
    IF body = None THEN Done(TRUE, ErrDecode)
    ELSE IF body[1].variant = "Generate" THEN Done(TRUE, OkGenerate(body[1].hme))
    ELSE Done(TRUE, Panic)

\* reserve_check without the comparison of the address.
reserve_check_active_only(g, email) ==
    IF g.is_active
    THEN OkReserve(g)
    ELSE ErrClaim(email, g.is_active, g.hme)

\* The Reserve arm of the match in claim: the record g against the
\* address asked for.
reserve_check(g, email) ==
    IF g.is_active /\ g.hme = email
    THEN OkReserve(g)
    ELSE ErrClaim(email, g.is_active, g.hme)

\* HideMyEmailManager::claim
claim(self, email, label, note, r) ==
    LET base == base_url(self) IN
    IF base = None THEN Outcome(<<>>, <<>>, <<>>, ErrMissingBaseUrl)
    ELSE
    LET payload == [hme |-> email, label |-> label, note |-> note]
        req == ManagerRequest(self, "POST", base[1], "/v1/hme/reserve", Some(payload))
        Done(dec, res) == Outcome(<<req>>, <<r>>, <<dec>>, res)
    IN
    IF r.outcome # "ok" THEN Done(FALSE, ErrTransport)
    ELSE IF is_server_error(r.status) \/ is_client_error(r.status)
    THEN Done(FALSE, ErrStatus(r.status, r.text))
    ELSE
    LET body == DecodeHME(r.text) IN
    IF body = None THEN Done(TRUE, ErrDecode)
    ELSE IF body[1].variant = "Reserve"
    THEN Done(TRUE, reserve_check(body[1], email))
    ELSE Done(TRUE, Panic)

\* list sending its request a second time when the transport fails.
list_retry(self, r) ==
    LET base == base_url(self) IN
    IF base = None THEN Outcome(<<>>, <<>>, <<>>, ErrMissingBaseUrl)
    ELSE
    LET req == ManagerRequest(self, "GET", base[1], "/v2/hme/list", NoPayload)
        Done(dec, res) == Outcome(<<req>>, <<r>>, <<dec>>, res)
    IN
    IF r.outcome # "ok" THEN Outcome(<<req, req>>, <<r, r>>, <<FALSE, FALSE>>, ErrTransport)
    ELSE IF is_server_error(r.status) \/ is_client_error(r.status)
    THEN Done(FALSE, ErrStatus(r.status, r.text))
    ELSE
    LET body == DecodeList(r.text) IN
    IF body = None THEN Done(TRUE, ErrDecode)
    ELSE Done(TRUE, OkList(body[1].result))

\* HideMyEmailManager::list
list(self, r) ==
    LET base == base_url(self) IN
    IF base = None THEN Outcome(<<>>, <<>>, <<>>, ErrMissingBaseUrl)
    ELSE
    LET req == ManagerRequest(self, "GET", base[1], "/v2/hme/list", NoPayload)
        Done(dec, res) == Outcome(<<req>>, <<r>>, <<dec>>, res)
    IN
    IF r.outcome # "ok" THEN Done(FALSE, ErrTransport)
    ELSE IF is_server_error(r.status) \/ is_client_error(r.status)
    THEN Done(FALSE, ErrStatus(r.status, r.text))
    ELSE
    LET body == DecodeList(r.text) IN
    IF body = None THEN Done(TRUE, ErrDecode)
    ELSE Done(TRUE, OkList(body[1].result))

\* generate_and_claim passing an empty note to claim.
generate_and_claim_blank_note(self, label, note, r1, r2) ==
    LET g == generate(self, r1) IN
    IF ~g.res.ok THEN g
    ELSE
    LET hme == g.res.hme
        c == claim(self, hme, label, "", r2)
    IN
    Outcome(g.reqs \o c.reqs, g.resps \o c.resps, g.decoded \o c.decoded,
            IF c.res.ok THEN OkGenerate(hme) ELSE c.res)

\* generate_and_claim dropping the result of claim.
generate_and_claim_ignore_claim(self, label, note, r1, r2) ==
    LET g == generate(self, r1) IN
    IF ~g.res.ok THEN g
    ELSE
    LET hme == g.res.hme
        c == claim(self, hme, label, note, r2)
    IN
    Outcome(g.reqs \o c.reqs, g.resps \o c.resps, g.decoded \o c.decoded,
            OkGenerate(hme))

\* HideMyEmailManager::generate_and_claim: r1 answers the generate request,
\* r2 the claim request (if one is issued).
generate_and_claim(self, label, note, r1, r2) ==
    LET g == generate(self, r1) IN
    IF ~g.res.ok THEN g
    ELSE
    LET hme == g.res.hme
        c == claim(self, hme, label, note, r2)
    IN
    Outcome(g.reqs \o c.reqs, g.resps \o c.resps, g.decoded \o c.decoded,
            IF c.res.ok THEN OkGenerate(hme) ELSE c.res)

\* ------------------------------------------------------------ state machine
\* phase: "none" (no client yet), "session" (an ICloudClient owned by the
\* caller), "manager" (the client was moved into a HideMyEmailManager).
\* client, services, cookies: the fields of the ICloudClient.
\* mgrCookie: HideMyEmailManager.cookie.
\* last: the most recent call, its arguments (given: the cookies handed to
\* new), the session fields before it and what it did.
Call(op, email, label, note, out) ==
    [op |-> op, email |-> email, label |-> label, note |-> note, given |-> <<>>,
     pre |-> [cookies |-> cookies, services |-> services, mgrCookie |-> mgrCookie],
     reqs |-> out.reqs, resps |-> out.resps, decoded |-> out.decoded, res |-> out.res]

NoOutcome == Outcome(<<>>, <<>>, <<>>, OkUnit)

Session == [client |-> client, services |-> services, cookies |-> cookies]
Manager == [icloud |-> Session, cookie |-> mgrCookie]

Init ==
    /\ phase = "none"
    /\ client = [cookie |-> <<>>]
    /\ services = EmptyDir
    /\ cookies = <<>>
    /\ mgrCookie = <<>>
    /\ last = [op |-> "none", email |-> "", label |-> "", note |-> "", given |-> <<>>,
               pre |-> [cookies |-> <<>>, services |-> EmptyDir, mgrCookie |-> <<>>],
               reqs |-> <<>>, resps |-> <<>>, decoded |-> <<>>, res |-> OkUnit]

New ==
    /\ phase = "none"
    /\ last.op = "none"
    /\ \E cs \in InitCookieLists :
        LET n == new(cs) IN
        /\ phase' = IF n.built THEN "session" ELSE "none"
        /\ client' = n.client
        /\ services' = n.services
        /\ cookies' = n.cookies
        /\ last' = [Call("new", "", "", "", Outcome(<<>>, <<>>, <<>>, n.res))
                       EXCEPT !.given = cs]
    /\ UNCHANGED mgrCookie

Validate ==
    /\ phase = "session"
    /\ \E r \in ValidateResponses :
        LET v == validate(Session, r) IN
        /\ services' = v.services
        /\ cookies' = v.cookies
        /\ last' = Call("validate", "", "", "", v.out)
    /\ UNCHANGED <<phase, client, mgrCookie>>

From ==
    /\ phase = "session"
    /\ LET m == from(Session) IN
        /\ phase' = "manager"
        /\ mgrCookie' = m.cookie
        /\ last' = Call("from", "", "", "", NoOutcome)
    /\ UNCHANGED <<client, services, cookies>>

Generate ==
    /\ phase = "manager"
    /\ \E r \in GenerateResponses :
        last' = Call("generate", "", "", "", generate(Manager, r))
    /\ UNCHANGED <<phase, client, services, cookies, mgrCookie>>

\* A claim that consumes the manager's Cookie header.
Claim_dropping_header ==
    /\ phase = "manager"
    /\ \E email \in Addresses, label \in Labels, note \in Notes, r \in ClaimResponses :
        last' = Call("claim", email, label, note, claim(Manager, email, label, note, r))
    /\ mgrCookie' = <<>>
    /\ UNCHANGED <<phase, client, services, cookies>>

Claim ==
    /\ phase = "manager"
    /\ \E email \in Addresses, label \in Labels, note \in Notes, r \in ClaimResponses :
        last' = Call("claim", email, label, note, claim(Manager, email, label, note, r))
    /\ UNCHANGED <<phase, client, services, cookies, mgrCookie>>

List ==
    /\ phase = "manager"
    /\ \E r \in ListResponses :
        last' = Call("list", "", "", "", list(Manager, r))
    /\ UNCHANGED <<phase, client, services, cookies, mgrCookie>>

GenerateAndClaim ==
    /\ phase = "manager"
    /\ \E label \in Labels, note \in Notes, r1 \in GenerateResponses :
        \* a second response is drawn only when a second request is issued
        \E r2 \in IF generate(Manager, r1).res.ok THEN ClaimResponses ELSE {r1} :
            last' = Call("generate_and_claim", "", label, note,
                         generate_and_claim(Manager, label, note, r1, r2))
    /\ UNCHANGED <<phase, client, services, cookies, mgrCookie>>

\* The flow of the tests: a header string is parsed with Cookie::from_str,
\* a client is built from the cookies, a manager from the client.  last
\* holds the header and what from_str returned.
HeaderChars == {"a", "1", "=", ";", " "}
HeaderStrings == SeqsUpTo(HeaderChars, MaxHeaderLen)

InitParse ==
    /\ phase = "header"
    /\ client = [cookie |-> <<>>]
    /\ services = EmptyDir
    /\ cookies = <<>>
    /\ mgrCookie = <<>>
    /\ \E s \in HeaderStrings :
          last = [op |-> "none", input |-> s, ok |-> FALSE, cookies |-> <<>>, err |-> <<>>]

ParseHeader ==
    /\ phase = "header"
    /\ LET p == from_str(last.input) IN
        /\ phase' = IF p.ok THEN "parsed" ELSE "failed"
        /\ last' = [op |-> "from_str", input |-> last.input,
                    ok |-> p.ok, cookies |-> p.cookies, err |-> p.err]
    /\ UNCHANGED <<client, services, cookies, mgrCookie>>

NewParsed ==
    /\ phase = "parsed"
    /\ LET n == new(last.cookies) IN
        /\ phase' = IF n.built THEN "session" ELSE "failed"
        /\ client' = n.client
        /\ services' = n.services
        /\ cookies' = n.cookies
    /\ UNCHANGED <<mgrCookie, last>>

FromParsed ==
    /\ phase = "session"
    /\ phase' = "manager"
    /\ mgrCookie' = from(Session).cookie
    /\ UNCHANGED <<client, services, cookies, last>>

NextParse ==
    \/ ParseHeader
    \/ NewParsed
    \/ FromParsed

SpecParse == InitParse /\ [][NextParse]_vars

Next ==
    \/ New
    \/ Validate
    \/ From
    \/ Generate
    \/ Claim
    \/ List
    \/ GenerateAndClaim

Spec == Init /\ [][Next]_vars

TypeOK ==
    /\ phase \in {"none", "session", "manager"}
    /\ last.op \in {"none", "new", "validate", "from", "generate", "claim", "list",
                    "generate_and_claim"}

\* ------------------------------------------------------------------ claims
\* Vocabulary of the claims, stated on the recorded call and not through
\* the operators of the model.
ErrorStatus(st) == st \in 400..599
Answered(i) == i \in 1..Len(last.resps) /\ last.resps[i].outcome = "ok"
ManagerOps == {"generate", "claim", "list", "generate_and_claim"}

\* C1: validate() returns Ok if and only if the status is not 4xx/5xx, the
\* body decodes as a service directory, the directory has the key
\* "premiummailsettings", that entry has a status, and the status is
\* "active"; a missing key, a missing status and a status other than
\* "active" each give their own domain error.
C1_ValidateOkIff ==
    (last.op = "validate" /\ Answered(1)) =>
        LET r == last.resps[1]
            good == ~ErrorStatus(r.status) /\ r.text.shape = "dir"
            pms == r.text.dir["premiummailsettings"]
        IN
        /\ last.res.ok <=>
              /\ good
              /\ pms # <<>>
              /\ pms[1].status # <<>>
              /\ pms[1].status[1] = "active"
        /\ (good /\ pms = <<>>) => last.res.kind = "missing_service"
        /\ (good /\ pms # <<>> /\ pms[1].status = <<>>) => last.res.kind = "missing_status"
        /\ (good /\ pms # <<>> /\ pms[1].status # <<>> /\ pms[1].status[1] # "active")
              => last.res.kind = "inactive"

\* A validate answered with a directory whose forwarding-email entry has no
\* status has failed with the error of the missing status.
C1_Witness ==
    /\ last.op = "validate"
    /\ Answered(1)
    /\ last.resps[1].status = 200
    /\ last.resps[1].text = DirText(DirNoStatus)
    /\ last.res.kind = "missing_status"

\* C2: claim(address, label, note) returns Ok only when the record of the
\* response has isActive = true and hme = address; every other decoded
\* record gives an error naming the address asked for, the actual flag and
\* the actual address.
C2_ClaimOkOnlyActiveAndSame ==
    last.op = "claim" =>
        /\ last.res.ok =>
              /\ Answered(1)
              /\ ~ErrorStatus(last.resps[1].status)
              /\ last.resps[1].text.shape = "rec"
              /\ last.resps[1].text.active
              /\ last.resps[1].text.hme = last.email
        /\ (Answered(1) /\ ~ErrorStatus(last.resps[1].status)
                /\ last.resps[1].text.shape = "rec"
                /\ ~(last.resps[1].text.active /\ last.resps[1].text.hme = last.email))
              => /\ ~last.res.ok
                 /\ last.res.kind = "claim_invalid"
                 /\ last.res.email = last.email
                 /\ last.res.active = last.resps[1].text.active
                 /\ last.res.hme = last.resps[1].text.hme

\* A claim of y answered with an active record of x has failed, naming both.
C2_Witness ==
    /\ last.op = "claim"
    /\ last.email = "y@example.com"
    /\ Answered(1)
    /\ last.resps[1].text = RecText("x@example.com", TRUE)
    /\ last.res.kind = "claim_invalid"
    /\ last.res.hme = "x@example.com"

\* C3: generate_and_claim(label, note) issues the generate request first
\* and the claim request second; the claim request is issued only if
\* generate succeeded and carries exactly the address generate returned and
\* the caller's label and note; the call returns Ok(a) only if generate
\* returned a and the server's record for the claim is active with hme = a.
C3_GenerateThenClaim ==
    last.op = "generate_and_claim" =>
        /\ Len(last.reqs) <= 2
        /\ Len(last.reqs) >= 1 =>
              /\ last.reqs[1].method = "POST"
              /\ last.reqs[1].path = "/v1/hme/generate"
              /\ last.reqs[1].payload = <<>>
        /\ Len(last.reqs) = 2 =>
              /\ Answered(1)
              /\ ~ErrorStatus(last.resps[1].status)
              /\ last.resps[1].text.shape = "str"
              /\ last.reqs[2].method = "POST"
              /\ last.reqs[2].path = "/v1/hme/reserve"
              /\ last.reqs[2].base = last.reqs[1].base
              /\ last.reqs[2].payload =
                    <<[hme |-> last.resps[1].text.hme,
                       label |-> last.label, note |-> last.note]>>
        /\ last.res.ok =>
              /\ Len(last.reqs) = 2
              /\ last.res.hme = last.resps[1].text.hme
              /\ Answered(2)
              /\ ~ErrorStatus(last.resps[2].status)
              /\ last.resps[2].text.shape = "rec"
              /\ last.resps[2].text.active
              /\ last.resps[2].text.hme = last.res.hme

\* The end-to-end scenario: generate answers x@example.com, the claim echoes
\* an active record of it, generate_and_claim("L", "N") returns it.
C3_Witness ==
    /\ last.op = "generate_and_claim"
    /\ last.label = "L"
    /\ last.note = "N"
    /\ Len(last.reqs) = 2
    /\ last.resps[1].text = StrText("x@example.com")
    /\ last.resps[2].text = RecText("x@example.com", TRUE)
    /\ last.res.ok
    /\ last.res.hme = "x@example.com"

\* C4: generate_and_claim is not atomic: when generate succeeded and the
\* claim that follows fails, the call returns the claim's error, returns no
\* address, and issues no request after the claim request.
C4_ClaimFailureAbandonsAddress ==
    (last.op = "generate_and_claim" /\ Len(last.reqs) >= 2) =>
        LET r == last.resps[2]
            a == last.resps[1].text.hme
            fails == \/ r.outcome # "ok"
                     \/ ErrorStatus(r.status)
                     \/ r.text.shape # "rec"
                     \/ ~r.text.active
                     \/ r.text.hme # a
        IN
        /\ Len(last.reqs) = 2
        /\ fails => ~last.res.ok
        /\ r.outcome # "ok" => last.res.kind = "transport"
        /\ (r.outcome = "ok" /\ ErrorStatus(r.status)) =>
              /\ last.res.kind = "status"
              /\ last.res.status = r.status
              /\ last.res.body = r.text
        /\ (r.outcome = "ok" /\ ~ErrorStatus(r.status) /\ r.text.shape = "list") =>
              last.res.kind = "decode"
        /\ (r.outcome = "ok" /\ ~ErrorStatus(r.status) /\ r.text.shape = "rec"
                /\ ~(r.text.active /\ r.text.hme = a)) =>
              /\ last.res.kind = "claim_invalid"
              /\ last.res.email = a
              /\ last.res.active = r.text.active
              /\ last.res.hme = r.text.hme

\* generate returned y@example.com, the claim was answered with an inactive
\* record, and the call ended with the claim's error after two requests.
C4_Witness ==
    /\ last.op = "generate_and_claim"
    /\ Len(last.reqs) = 2
    /\ last.resps[1].text = StrText("y@example.com")
    /\ last.resps[2].text = RecText("x@example.com", FALSE)
    /\ ~last.res.ok
    /\ last.res.kind = "claim_invalid"

\* C5: a successful validate() replaces the whole service directory of the
\* session with the directory of the response, on a first validation and
\* on a re-validation alike.
C5_ValidateReplacesDirectory ==
    (last.op = "validate" /\ last.res.ok) =>
        /\ Answered(1)
        /\ last.resps[1].text.shape = "dir"
        /\ \A k \in ServiceKeys : services[k] = last.resps[1].text.dir[k]

\* A re-validation: the directory held two services, the response lists
\* one, and the other service is gone.
C5_Witness ==
    /\ last.op = "validate"
    /\ last.res.ok
    /\ last.pre.services = DirActive
    /\ last.resps[1].text = DirText(DirActiveNoUrl)
    /\ services["other"] = <<>>

\* The cookies of old whose name is not in names, in their order.
RECURSIVE Surviving(_, _)
Surviving(old, names) ==
    IF old = <<>> THEN <<>>
    ELSE IF old[1].name \in names THEN Surviving(Tail(old), names)
    ELSE <<old[1]>> \o Surviving(Tail(old), names)

\* C6: after a successful validate() the cookie set is the previous set
\* without the cookies whose name occurs among the response cookies, in
\* their previous order, followed by all response cookies in response
\* order; merging [{a,2}] into [{a,1},{b,1}] gives [{b,1},{a,2}].
C6_ValidateMergesCookies ==
    (last.op = "validate" /\ last.res.ok) =>
        LET old == last.pre.cookies
            inc == last.resps[1].cookies
            names == {inc[j].name : j \in 1..Len(inc)}
            kept == Surviving(old, names)
        IN
        /\ Len(cookies) = Len(kept) + Len(inc)
        /\ \A i \in 1..Len(kept) : cookies[i] = kept[i]
        /\ \A j \in 1..Len(inc) : cookies[Len(kept) + j] = inc[j]
        /\ (old = <<Cookie(<<"a">>, <<"1">>), Cookie(<<"b">>, <<"1">>)>>
               /\ inc = <<Cookie(<<"a">>, <<"2">>)>>)
              => cookies = <<Cookie(<<"b">>, <<"1">>), Cookie(<<"a">>, <<"2">>)>>

\* The example of the merge.
C6_Witness ==
    /\ last.op = "validate"
    /\ last.res.ok
    /\ last.pre.cookies = <<Cookie(<<"a">>, <<"1">>), Cookie(<<"b">>, <<"1">>)>>
    /\ last.resps[1].cookies = <<Cookie(<<"a">>, <<"2">>)>>
    /\ cookies = <<Cookie(<<"b">>, <<"1">>), Cookie(<<"a">>, <<"2">>)>>

\* C7: in validate, generate, claim and list a response with a 4xx or 5xx
\* status ends the call with an error carrying the status and the raw
\* body, whatever the body is; the body is not decoded.
C7_ErrorStatusFirst ==
    \A i \in 1..Len(last.resps) :
        (last.resps[i].outcome = "ok" /\ ErrorStatus(last.resps[i].status)) =>
            /\ i = Len(last.resps)
            /\ ~last.res.ok
            /\ last.res.kind = "status"
            /\ last.res.status = last.resps[i].status
            /\ last.res.body = last.resps[i].text
            /\ ~last.decoded[i]

\* A claim of x answered 500 with a well-formed active record of x.
C7_Witness ==
    /\ last.op = "claim"
    /\ last.email = "x@example.com"
    /\ Answered(1)
    /\ last.resps[1].status = 500
    /\ last.resps[1].text = RecText("x@example.com", TRUE)
    /\ last.res.kind = "status"
    /\ last.res.status = 500

\* C8 as stated: every response whose status is not 2xx gives a transport
\* error carrying the status and the raw body and is never decoded.
C8_Non2xxIsTransportError ==
    \A i \in 1..Len(last.resps) :
        (last.resps[i].outcome = "ok" /\ last.resps[i].status \notin 200..299) =>
            /\ last.res.kind = "status"
            /\ last.res.status = last.resps[i].status
            /\ last.res.body = last.resps[i].text
            /\ ~last.decoded[i]

\* C8 amended: a response gives the transport error (with its status and
\* raw body) and is kept from JSON decoding exactly when its status is 4xx
\* or 5xx; a response with any other status, 2xx or not, is decoded and
\* the call does not end with the transport error.
C8_OnlyErrorStatusSkipsDecoding ==
    \A i \in 1..Len(last.resps) :
        last.resps[i].outcome = "ok" =>
            /\ last.decoded[i] <=> ~ErrorStatus(last.resps[i].status)
            /\ i = Len(last.resps) =>
                  (last.res.kind = "status" <=> ErrorStatus(last.resps[i].status))
            /\ last.res.kind = "status" =>
                  (i = Len(last.resps) =>
                      /\ last.res.status = last.resps[i].status
                      /\ last.res.body = last.resps[i].text)

\* A validate answered 304 with an active directory was decoded and
\* succeeded.
C8_Witness ==
    /\ last.op = "validate"
    /\ Answered(1)
    /\ last.resps[1].status = 304
    /\ last.decoded[1]
    /\ last.res.ok

\* C9: building a manager from a session never fails; while the directory
\* has no forwarding-email entry with a url, generate, claim, list and
\* generate_and_claim return the "Missing Base URL" error and issue no
\* request.
C9_MissingBaseUrl ==
    /\ last.op = "from" => (phase = "manager" /\ last.res.ok)
    /\ (last.op \in ManagerOps
          /\ (services["premiummailsettings"] = <<>>
                \/ services["premiummailsettings"][1].url = <<>>)) =>
            /\ last.res.kind = "missing_base_url"
            /\ ~last.res.ok
            /\ last.reqs = <<>>

\* generate_and_claim on a manager whose session validated against an
\* entry without url.
C9_Witness ==
    /\ last.op = "generate_and_claim"
    /\ services = DirActiveNoUrl
    /\ last.res.kind = "missing_base_url"
    /\ last.reqs = <<>>

\* C10: every request of every call carries a Cookie header equal to the
\* serialization of the session's cookie set as it is when the request is
\* issued.
C10_RequestsCarryCurrentCookies ==
    \A i \in 1..Len(last.reqs) :
        last.reqs[i].cookie = CookieHeader(last.pre.cookies)

\* The forwarding-email base URL can be resolved from the directory.
HasBaseUrl ==
    /\ services["premiummailsettings"] # <<>>
    /\ services["premiummailsettings"][1].url # <<>>

\* The i-th response of the recorded call is a failure of the transport or
\* of the status.
FailedResponse(i) ==
    \/ last.resps[i].outcome # "ok"
    \/ ErrorStatus(last.resps[i].status)

\* C11 as stated: validate, generate, claim and list issue at most one
\* request per call, generate_and_claim at most two and exactly one when
\* generate fails; every failure ends the call at once.
C11_ExactlyOneRequestWhenGenerateFails ==
    /\ last.op \in {"validate", "generate", "claim", "list"} => Len(last.reqs) <= 1
    /\ last.op = "generate_and_claim" =>
          /\ Len(last.reqs) <= 2
          /\ (~last.res.ok /\ Len(last.reqs) # 2) => Len(last.reqs) = 1

\* C11 amended: no call retries.  validate, generate, claim and list issue
\* at most one request per call; generate_and_claim at most two, to two
\* different endpoints, exactly one when generate fails on its response and
\* none when generate fails for the missing base URL; a failed response is
\* the last one of its call and its error is what the call returns.
C11_NoRetry ==
    /\ Len(last.resps) = Len(last.reqs)
    /\ last.op \in {"validate", "generate", "claim", "list"} => Len(last.reqs) <= 1
    /\ last.op = "generate_and_claim" =>
          /\ Len(last.reqs) <= 2
          /\ Len(last.reqs) = 2 => last.reqs[1].path # last.reqs[2].path
          /\ ~HasBaseUrl => Len(last.reqs) = 0
          /\ HasBaseUrl => Len(last.reqs) >= 1
          /\ (HasBaseUrl /\ (FailedResponse(1) \/ last.resps[1].text.shape # "str"))
                => (Len(last.reqs) = 1 /\ ~last.res.ok)
    /\ \A i \in 1..Len(last.resps) :
          FailedResponse(i) =>
              /\ i = Len(last.resps)
              /\ ~last.res.ok
              /\ last.res.kind = IF last.resps[i].outcome # "ok" THEN "transport" ELSE "status"
    /\ (~last.res.ok /\ last.res.kind \in {"decode", "claim_invalid"}) =>
          /\ Len(last.resps) >= 1
          /\ last.decoded[Len(last.resps)]

\* generate_and_claim whose generate request was answered 500: one request,
\* the error returned.
C11_Witness ==
    /\ last.op = "generate_and_claim"
    /\ Len(last.reqs) = 1
    /\ Answered(1)
    /\ last.resps[1].status = 500
    /\ last.res.kind = "status"

\* The positions in s where the separator "; " starts.
SepAt(s) == {i \in 1..(Len(s) - 1) : s[i] = ";" /\ s[i + 1] = " "}

\* The position of the k-th separator of s.
NthSep(s, k) == CHOOSE i \in SepAt(s) : Cardinality({j \in SepAt(s) : j <= i}) = k

\* The k-th segment of s: what lies between separator k-1 and separator k.
Segment(s, k) ==
    LET from_ == IF k = 1 THEN 1 ELSE NthSep(s, k - 1) + 2
        to_ == IF k = Cardinality(SepAt(s)) + 1 THEN Len(s) ELSE NthSep(s, k) - 1
    IN SubSeq(s, from_, to_)

HasEq(seg) == \E i \in 1..Len(seg) : seg[i] = "="

\* C12: Cookie::from_str is all-or-nothing and keeps the order: the header
\* is cut at every "; ", each segment at its first "="; if every segment
\* has a "=" the result is the cookies in input order, otherwise the parse
\* fails naming the first segment without "=" and gives no cookie; the
\* empty string fails naming the empty segment.
C12_ParseAllOrNothing ==
    last.op = "from_str" =>
        LET s == last.input
            n == Cardinality(SepAt(s)) + 1
            bad == {k \in 1..n : ~HasEq(Segment(s, k))}
        IN
        /\ last.ok <=> bad = {}
        /\ last.ok =>
              /\ Len(last.cookies) = n
              /\ \A k \in 1..n :
                    LET c == last.cookies[k] IN
                    /\ c.name \o <<"=">> \o c.value = Segment(s, k)
                    /\ ~HasEq(c.name)
        /\ ~last.ok =>
              /\ last.err = Segment(s, CHOOSE k \in bad : \A j \in bad : k <= j)
              /\ last.cookies = <<>>
        /\ s = <<>> => (~last.ok /\ last.err = <<>>)

\* "a=; 1": a well-formed segment, then one without "=", which is named.
C12_Witness ==
    /\ last.op = "from_str"
    /\ last.input = <<"a", "=", ";", " ", "1">>
    /\ ~last.ok
    /\ last.err = <<"1">>

\* C19: for every header string s that Cookie::from_str parses, joining the
\* parsed cookies as "name=value" with "; ", as ICloudClient::new and
\* HideMyEmailManager::from do, gives back exactly s.
C19_ParseSerializeRoundTrip ==
    (last.op = "from_str" /\ last.ok) =>
        /\ phase \in {"session", "manager"} => client.cookie = last.input
        /\ phase = "manager" => mgrCookie = last.input

\* "a=; =" parsed into two cookies, and both the client's header and the
\* manager's snapshot are the string again.
C19_Witness ==
    /\ last.op = "from_str"
    /\ last.input = <<"a", "=", ";", " ", "=">>
    /\ Len(last.cookies) = 2
    /\ phase = "manager"
    /\ client.cookie = last.input
    /\ mgrCookie = last.input

\* A character that a header value cannot hold.
BadHeaderChar(ch) == ch # "\t" /\ (CharCode(ch) < 32 \/ CharCode(ch) >= 127)
HasBadHeaderChar(s) == \E i \in 1..Len(s) : BadHeaderChar(s[i])

\* C13: building a client from cookies whose serialized header cannot be
\* encoded as a header value fails at construction: the call aborts, no
\* client comes out of it and no request is ever sent with such cookies.
C13_BadCookiesFailConstruction ==
    /\ (last.op = "new"
          /\ \E i \in 1..Len(last.given) :
                HasBadHeaderChar(last.given[i].name) \/ HasBadHeaderChar(last.given[i].value))
        => /\ ~last.res.ok
           /\ last.res.kind = "panic"
           /\ phase = "none"
           /\ last.reqs = <<>>
    /\ phase \in {"session", "manager"} => ~HasBadHeaderChar(client.cookie)
    /\ \A i \in 1..Len(last.reqs) : ~HasBadHeaderChar(last.reqs[i].cookie)

\* new() on [a=1, b=<newline>] aborted and left no client.
C13_Witness ==
    /\ last.op = "new"
    /\ last.given = <<Cookie(<<"a">>, <<"1">>), Cookie(<<"b">>, <<"\n">>)>>
    /\ last.res.kind = "panic"
    /\ phase = "none"

\* C14: a validate() that returns an error leaves the service directory
\* and the cookie set of the session as they were; the cookies of the
\* failing response are not merged and an earlier directory is kept.
C14_FailedValidateChangesNothing ==
    (last.op = "validate" /\ ~last.res.ok) =>
        /\ cookies = last.pre.cookies
        /\ services = last.pre.services

\* A re-validation answered with an inactive service and a cookie: the
\* directory of the earlier validation and the cookies are still there.
C14_Witness ==
    /\ last.op = "validate"
    /\ last.res.kind = "inactive"
    /\ last.resps[1].cookies = <<Cookie(<<"a">>, <<"2">>)>>
    /\ last.pre.services = DirActive
    /\ services = DirActive
    /\ cookies = <<Cookie(<<"a">>, <<"1">>), Cookie(<<"b">>, <<"1">>)>>

\* C15: generate, claim, list and generate_and_claim change nothing on the
\* client side, whether they succeed or fail: the manager's header, the
\* session's cookie set, its directory and its transport stay as they are;
\* the cookie set and the directory change in validate() only (after
\* new() has set them).  So a manager call meets the same manager whatever
\* calls came before it.
C15_ManagerCallsChangeNothing ==
    [][/\ last'.op \in ManagerOps =>
            UNCHANGED <<phase, client, services, cookies, mgrCookie>>
       /\ phase = "manager" =>
            UNCHANGED <<phase, client, services, cookies, mgrCookie>>
       /\ (cookies' # cookies \/ services' # services) =>
            last'.op \in {"validate", "new"}]_vars

\* A successful claim on a manager with cookies and a directory, all of
\* them as before the call.
C15_Witness ==
    /\ phase = "manager"
    /\ last.op = "claim"
    /\ last.res.ok
    /\ services = DirActive
    /\ cookies = <<Cookie(<<"b">>, <<"1">>), Cookie(<<"a">>, <<"2">>)>>
    /\ mgrCookie = <<"b", "=", "1", ";", " ", "a", "=", "2">>
    /\ last.pre.mgrCookie = mgrCookie

\* C16: whatever the server answers, generate and claim end with a value
\* returned, Ok or Err, and never abort in a branch marked unreachable.
C16_NoAbortInManagerCalls ==
    last.op \in ManagerOps => last.res.kind # "panic"

\* C17: on a manager built from a session on which validate() returned Ok
\* (its directory then holds the forwarding-email entry), generate, claim
\* and list never return the "Missing Base URL" error.
C17_ReadyAfterValidate ==
    (last.op \in {"generate", "claim", "list"}
        /\ services["premiummailsettings"] # <<>>)
      => last.res.kind # "missing_base_url"

\* C18: the service directory of a session is either empty or holds the
\* key "premiummailsettings" with status "active".
C18_DirectoryEmptyOrActive ==
    \/ \A k \in ServiceKeys : services[k] = <<>>
    \/ /\ services["premiummailsettings"] # <<>>
       /\ services["premiummailsettings"][1].status = <<"active">>

\* After a validation that succeeded, one that was answered with an
\* inactive service: the directory still has the active entry.
C18_Witness ==
    /\ last.op = "validate"
    /\ ~last.res.ok
    /\ last.resps[1].text = DirText(DirInactive)
    /\ services["premiummailsettings"] # <<>>
    /\ services["premiummailsettings"][1].status = <<"active">>

\* C20: two successive successful validate() calls whose responses carry
\* the same cookies leave the cookie set after the second as it was after
\* the first.
C20_MergeIdempotent ==
    [][(/\ last.op = "validate"
        /\ last.res.ok
        /\ last'.op = "validate"
        /\ last'.res.ok
        /\ last'.resps[1].cookies = last.resps[1].cookies)
       => cookies' = cookies]_vars

\* The second of two validations answered with [a=2, b=2]: the set it found
\* is the set it left.
C20_Witness ==
    /\ last.op = "validate"
    /\ last.res.ok
    /\ last.resps[1].cookies = <<Cookie(<<"a">>, <<"2">>), Cookie(<<"b">>, <<"2">>)>>
    /\ last.pre.cookies = <<Cookie(<<"a">>, <<"2">>), Cookie(<<"b">>, <<"2">>)>>
    /\ cookies = last.pre.cookies

====
